---- MODULE Spec2Model ----
(***************************************************************************)
(* Parallel-prefix adder engines of src/adders: the exact engines of       *)
(* exactAdders.py and the approximate engines of approxAdders.py, run one  *)
(* outer-loop iteration (one merge stage) per step.                        *)
(* Further specifications run the prefix operator and the bit codecs of    *)
(* utils.py and base_adder.py on their own, and the class AxppaBk of       *)
(* axppabk.py.                                                             *)
(*                                                                         *)
(* Python lists are sequences; position i of the code (0-based) is index   *)
(* i + 1 here, and At/Upd do the shift.  An exception ends a call with     *)
(* outcome = its name and no sum bits.                                     *)
(***************************************************************************)
EXTENDS Integers, Sequences, FiniteSets, TLC

\* ------------------------------------------------------------------ bounds
\* Largest width W of a call with two equal-length bit vectors.
MaxW == 5
\* Largest length of a vector in a call whose vectors differ in length.
MaxBadLen == 2
\* Largest width of the operands of a sweep (several calls on the same lists).
SeqMaxW == 3
\* Largest width of a value given to the bit codecs on their own.
CodecMaxW == 4
\* Largest width of an AxppaBk object.
AxppaMaxW == 4

\* ----------------------------------------------------------- Python lists
At(list, i) == list[i + 1]
Upd(list, i, v) == [list EXCEPT ![i + 1] = v]
Zeros(W) == [n \in 1..W |-> 0]
BitVectors(W) == [1..W -> {0, 1}]

\* the operators &, | and ^ of Python on the bits 0 and 1
BitAnd(x, y) == IF x = 1 /\ y = 1 THEN 1 ELSE 0
BitOr(x, y) == IF x = 1 \/ y = 1 THEN 1 ELSE 0
BitXor(x, y) == IF x = y THEN 0 ELSE 1

\* int(math.ceil(math.log2(W))) for W >= 1 (math.log2(0) raises ValueError)
ceil_log2(W) == CHOOSE n \in 0..W : 2^n >= W /\ \A m \in 0..(n - 1) : 2^m < W

\* -------------------------------------------------------------- bit codec
\* int_to_bin_list with the most significant bit at index 0
int_to_bin_list_msb_first(x, W) == [n \in 1..W |-> (x \div 2^(W - n)) % 2]

int_to_bin_list(x, W) == [n \in 1..W |-> (x \div 2^(n - 1)) % 2]

RECURSIVE bin_list_to_int(_)
bin_list_to_int(bits) ==
    IF Len(bits) = 0 THEN 0
    ELSE bits[Len(bits)] * 2^(Len(bits) - 1)
         + bin_list_to_int(SubSeq(bits, 1, Len(bits) - 1))

\* -------------------------------------------------------- prefix operators
\* prefix_operator with the left propagate in the generate term
prefix_operator_left_propagate(g_left, p_left, g_right, p_right) ==
    [g |-> BitOr(g_right, BitAnd(p_left, g_left)), p |-> BitAnd(p_right, p_left)]

prefix_operator(g_left, p_left, g_right, p_right) ==
    [g |-> BitOr(g_right, BitAnd(p_right, g_left)), p |-> BitAnd(p_right, p_left)]

\* approx_prefix_operator with the left generate kept
approx_prefix_operator_keeps_left(g_left, p_left, g_right, p_right) ==
    [g |-> BitOr(g_right, g_left), p |-> p_right]

approx_prefix_operator(g_left, p_left, g_right, p_right) ==
    [g |-> g_right, p |-> p_right]

\* The names bound in the two modules' global namespaces when an engine runs:
\* a call of a name that is not bound raises NameError.
approxAdders_globals ==
    {"math", "prefix_operator", "int_to_bin_list", "bin_list_to_int",
     "approx_prefix_operator", "approx_bk_adder", "approx_ks_adder",
     "approx_sk_adder", "approx_lf_adder",
     "axppa_bk", "axppa_ks", "axppa_sk", "axppa_lf"}

exactAdders_globals == {"math", "bk_adder", "ks_adder", "sk_adder", "lf_adder"}

ExactEngines == {"bk_adder", "ks_adder", "sk_adder", "lf_adder"}
ApproxEngines == {"approx_bk_adder", "approx_ks_adder", "approx_sk_adder", "approx_lf_adder"}
Engines == ExactEngines \cup ApproxEngines

\* A row of a stage buffer under construction: the (G, P) values, the
\* exception raised while it was built ("none" if none), and the merges done.
Row(G_curr, P_curr) == [G |-> G_curr, P |-> P_curr, err |-> "none", log |-> {}]
Raise(row, e) == [row EXCEPT !.err = e]
Merge(s, i, j, op) == [stage |-> s, target |-> i, partner |-> j, op |-> op]
\* the result of a merge together with the name of the operator that was called
Applied(name, o) == [g |-> o.g, p |-> o.p, op |-> name]

\* ------------------------------------------------- exact Brent-Kung engine
\* g_fwd, p_fwd: log_w rows of W zeros (exactAdders.py 28-29).
bk_alloc(W, log_w) == [n \in 1..log_w |-> Zeros(W)]

\* "stage 0: local bits" (31-34): g_fwd[0][i] = g[i] for i in range(W).
bk_stage0(buf, g, p) ==
    IF Len(g) = 0 THEN buf
    ELSE IF Len(buf.G) = 0 THEN Raise(buf, "IndexError")
    ELSE [buf EXCEPT !.G = Upd(buf.G, 0, g), !.P = Upd(buf.P, 0, p)]

\* for i in range(W) of one iteration of "while dist < W" (39-53), from i on.
RECURSIVE bk_for_i(_, _, _, _, _)
bk_for_i(buf, W, lvl, dist, i) ==
    IF i >= W \/ buf.err /= "none" THEN buf
    ELSE LET j == i - dist IN
         IF j >= 0 /\ "prefix_operator" \notin exactAdders_globals
         THEN Raise(buf, "NameError")
         ELSE IF lvl >= Len(buf.G) THEN Raise(buf, "IndexError")
         ELSE IF j >= 0
         THEN LET o == prefix_operator(At(At(buf.G, lvl - 1), j), At(At(buf.P, lvl - 1), j),
                                       At(At(buf.G, lvl - 1), i), At(At(buf.P, lvl - 1), i))
              IN bk_for_i([buf EXCEPT !.G = Upd(buf.G, lvl, Upd(At(buf.G, lvl), i, o.g)),
                                      !.P = Upd(buf.P, lvl, Upd(At(buf.P, lvl), i, o.p)),
                                      !.log = @ \cup {Merge(lvl, i, j, "prefix_operator")}],
                             W, lvl, dist, i + 1)
         ELSE bk_for_i([buf EXCEPT
                          !.G = Upd(buf.G, lvl, Upd(At(buf.G, lvl), i, At(At(buf.G, lvl - 1), i))),
                          !.P = Upd(buf.P, lvl, Upd(At(buf.P, lvl), i, At(At(buf.P, lvl - 1), i)))],
                       W, lvl, dist, i + 1)

bk_stage(buf, W, lvl, dist) == bk_for_i(buf, W, lvl, dist, 0)

\* ------------------------------------------- approximate Brent-Kung engine
\* G, P: log_w + 1 rows of W zeros (approxAdders.py 46-47), stage 0 = g, p (50-52).
approx_bk_alloc(W, log_w) == [n \in 1..(log_w + 1) |-> Zeros(W)]

approx_bk_stage0(buf, g, p) ==
    IF Len(g) = 0 THEN buf
    ELSE [buf EXCEPT !.G = Upd(buf.G, 0, g), !.P = Upd(buf.P, 0, p)]

\* the operator of the merge that writes position i (63-73)
approx_bk_merge(G_prev, P_prev, j, i, k) ==
    IF i < k
    THEN Applied("approx_prefix_operator",
                 approx_prefix_operator(At(G_prev, j), At(P_prev, j), At(G_prev, i), At(P_prev, i)))
    ELSE Applied("prefix_operator",
                 prefix_operator(At(G_prev, j), At(P_prev, j), At(G_prev, i), At(P_prev, i)))

\* one iteration of "while dist < W" (58-79): row `stage` from row stage - 1
approx_bk_stage(buf, W, stage, dist, k) ==
    LET G_prev == At(buf.G, stage - 1)
        P_prev == At(buf.P, stage - 1)
        out(i) == approx_bk_merge(G_prev, P_prev, i - dist, i, k)
        G_row == [n \in 1..W |-> IF (n - 1) - dist >= 0 THEN out(n - 1).g ELSE At(G_prev, n - 1)]
        P_row == [n \in 1..W |-> IF (n - 1) - dist >= 0 THEN out(n - 1).p ELSE At(P_prev, n - 1)]
    IN [buf EXCEPT !.G = Upd(buf.G, stage, G_row), !.P = Upd(buf.P, stage, P_row),
                   !.log = @ \cup {Merge(stage, i, i - dist, out(i).op) :
                                     i \in {x \in 0..(W - 1) : x - dist >= 0}}]

\* ------------------------------------------------------ Kogge-Stone engines
\* exact (exactAdders.py 98-118): G_curr, P_curr from G_prev, P_prev, appended
RECURSIVE ks_for_i(_, _, _, _, _, _, _)
ks_for_i(row, G_prev, P_prev, W, stage, dist, i) ==
    IF i >= W \/ row.err /= "none" THEN row
    ELSE IF i - dist >= 0
    THEN IF "prefix_operator" \notin exactAdders_globals THEN Raise(row, "NameError")
         ELSE LET o == prefix_operator(At(G_prev, i - dist), At(P_prev, i - dist),
                                       At(G_prev, i), At(P_prev, i))
              IN ks_for_i([row EXCEPT !.G = Upd(row.G, i, o.g), !.P = Upd(row.P, i, o.p),
                                      !.log = @ \cup {Merge(stage, i, i - dist, "prefix_operator")}],
                          G_prev, P_prev, W, stage, dist, i + 1)
    ELSE ks_for_i([row EXCEPT !.G = Upd(row.G, i, At(G_prev, i)),
                              !.P = Upd(row.P, i, At(P_prev, i))],
                  G_prev, P_prev, W, stage, dist, i + 1)

ks_stage(buf, W, stage) ==
    LET row == ks_for_i(Row(Zeros(W), Zeros(W)), At(buf.G, stage - 1), At(buf.P, stage - 1),
                        W, stage, 2^(stage - 1), 0)
    IN IF row.err /= "none" THEN Raise(buf, row.err)
       ELSE [buf EXCEPT !.G = Append(buf.G, row.G), !.P = Append(buf.P, row.P),
                        !.log = @ \cup row.log]

\* approx_ks_merge with the boundary test off by one: position K approximated too
approx_ks_merge_through_K(G_prev, P_prev, j, i, k) ==
    IF i <= k
    THEN Applied("approx_prefix_operator",
                 approx_prefix_operator(At(G_prev, j), At(P_prev, j), At(G_prev, i), At(P_prev, i)))
    ELSE Applied("prefix_operator",
                 prefix_operator(At(G_prev, j), At(P_prev, j), At(G_prev, i), At(P_prev, i)))

\* the operator of the merge that writes position i (approxAdders.py 116-127)
approx_ks_merge(G_prev, P_prev, j, i, k) ==
    IF i < k
    THEN Applied("approx_prefix_operator",
                 approx_prefix_operator(At(G_prev, j), At(P_prev, j), At(G_prev, i), At(P_prev, i)))
    ELSE Applied("prefix_operator",
                 prefix_operator(At(G_prev, j), At(P_prev, j), At(G_prev, i), At(P_prev, i)))

\* approximate (approxAdders.py 107-134)
approx_ks_stage(buf, W, stage_i, k) ==
    LET dist == 2^(stage_i - 1)
        G_prev == At(buf.G, stage_i - 1)
        P_prev == At(buf.P, stage_i - 1)
        out(i) == approx_ks_merge(G_prev, P_prev, i - dist, i, k)
        G_curr == [n \in 1..W |-> IF (n - 1) - dist >= 0 THEN out(n - 1).g ELSE At(G_prev, n - 1)]
        P_curr == [n \in 1..W |-> IF (n - 1) - dist >= 0 THEN out(n - 1).p ELSE At(P_prev, n - 1)]
    IN [buf EXCEPT !.G = Append(buf.G, G_curr), !.P = Append(buf.P, P_curr),
                   !.log = @ \cup {Merge(stage_i, i, i - dist, out(i).op) :
                                     i \in {x \in 0..(W - 1) : x - dist >= 0}}]

\* --------------------------------------------------------- Sklansky engines
Min(x, y) == IF x <= y THEN x ELSE y

\* "keep bits i..block_end-1 the same" (exactAdders.py 165-167, approxAdders.py 172-174)
sk_keep(row, G_prev, P_prev, W, i, block_end) ==
    [row EXCEPT
       !.G = [n \in 1..W |-> IF i <= n - 1 /\ n - 1 < block_end THEN At(G_prev, n - 1) ELSE row.G[n]],
       !.P = [n \in 1..W |-> IF i <= n - 1 /\ n - 1 < block_end THEN At(P_prev, n - 1) ELSE row.P[n]]]

\* exact: "while j2 < i + 2*dist and j2 < W" (exactAdders.py 171-179), from j2 on
RECURSIVE sk_while_j2(_, _, _, _, _, _, _, _, _)
sk_while_j2(row, G_prev, P_prev, W, stage, i, dist, block_end, j2) ==
    IF ~(j2 < i + 2 * dist /\ j2 < W) \/ row.err /= "none" THEN row
    ELSE IF "prefix_operator" \notin exactAdders_globals THEN Raise(row, "NameError")
    ELSE LET o == prefix_operator(At(row.G, block_end - 1), At(row.P, block_end - 1),
                                  At(G_prev, j2), At(P_prev, j2))
         IN sk_while_j2([row EXCEPT !.G = Upd(row.G, j2, o.g), !.P = Upd(row.P, j2, o.p),
                                    !.log = @ \cup {Merge(stage, j2, block_end - 1, "prefix_operator")}],
                        G_prev, P_prev, W, stage, i, dist, block_end, j2 + 1)

\* exact: "while i < W" over the blocks (exactAdders.py 161-181), from block i on
RECURSIVE sk_while_i(_, _, _, _, _, _, _)
sk_while_i(row, G_prev, P_prev, W, stage, dist, i) ==
    IF ~(i < W) \/ row.err /= "none" THEN row
    ELSE LET block_end == Min(i + dist, W)
         IN sk_while_i(sk_while_j2(sk_keep(row, G_prev, P_prev, W, i, block_end),
                                   G_prev, P_prev, W, stage, i, dist, block_end, block_end),
                       G_prev, P_prev, W, stage, dist, i + 2 * dist)

sk_stage(buf, W, stage) ==
    LET row == sk_while_i(Row(Zeros(W), Zeros(W)), At(buf.G, stage - 1), At(buf.P, stage - 1),
                          W, stage, 2^(stage - 1), 0)
    IN IF row.err /= "none" THEN Raise(buf, row.err)
       ELSE [buf EXCEPT !.G = Append(buf.G, row.G), !.P = Append(buf.P, row.P),
                        !.log = @ \cup row.log]

\* approx_sk_merge choosing the operator by the partner's index, not the target's
approx_sk_merge_by_partner(G_curr, P_curr, G_prev, P_prev, block_end, j2, k) ==
    IF block_end - 1 < k
    THEN Applied("approx_prefix_operator",
                 approx_prefix_operator(At(G_curr, block_end - 1), At(P_curr, block_end - 1),
                                        At(G_prev, j2), At(P_prev, j2)))
    ELSE Applied("prefix_operator",
                 prefix_operator(At(G_curr, block_end - 1), At(P_curr, block_end - 1),
                                 At(G_prev, j2), At(P_prev, j2)))

\* approx_sk_merge with the left operand read at j2 - 1, the position that the
\* merge before it in the same stage has just written
approx_sk_merge_ripple(G_curr, P_curr, G_prev, P_prev, block_end, j2, k) ==
    IF j2 < k
    THEN Applied("approx_prefix_operator",
                 approx_prefix_operator(At(G_curr, j2 - 1), At(P_curr, j2 - 1),
                                        At(G_prev, j2), At(P_prev, j2)))
    ELSE Applied("prefix_operator",
                 prefix_operator(At(G_curr, j2 - 1), At(P_curr, j2 - 1),
                                 At(G_prev, j2), At(P_prev, j2)))

\* the operator of the merge that writes position j2 (approxAdders.py 179-188)
approx_sk_merge(G_curr, P_curr, G_prev, P_prev, block_end, j2, k) ==
    IF j2 < k
    THEN Applied("approx_prefix_operator",
                 approx_prefix_operator(At(G_curr, block_end - 1), At(P_curr, block_end - 1),
                                        At(G_prev, j2), At(P_prev, j2)))
    ELSE Applied("prefix_operator",
                 prefix_operator(At(G_curr, block_end - 1), At(P_curr, block_end - 1),
                                 At(G_prev, j2), At(P_prev, j2)))

\* approximate: "while j2 < i + 2*dist and j2 < W" (approxAdders.py 177-191)
RECURSIVE approx_sk_while_j2(_, _, _, _, _, _, _, _, _, _)
approx_sk_while_j2(row, G_prev, P_prev, W, stage_i, i, dist, block_end, j2, k) ==
    IF ~(j2 < i + 2 * dist /\ j2 < W) THEN row
    ELSE LET o == approx_sk_merge(row.G, row.P, G_prev, P_prev, block_end, j2, k)
         IN approx_sk_while_j2([row EXCEPT !.G = Upd(row.G, j2, o.g), !.P = Upd(row.P, j2, o.p),
                                           !.log = @ \cup {Merge(stage_i, j2, block_end - 1, o.op)}],
                               G_prev, P_prev, W, stage_i, i, dist, block_end, j2 + 1, k)

\* approximate: "while i < W" over the blocks (approxAdders.py 168-193)
RECURSIVE approx_sk_while_i(_, _, _, _, _, _, _, _)
approx_sk_while_i(row, G_prev, P_prev, W, stage_i, dist, i, k) ==
    IF ~(i < W) THEN row
    ELSE LET block_end == Min(i + dist, W)
         IN approx_sk_while_i(
                approx_sk_while_j2(sk_keep(row, G_prev, P_prev, W, i, block_end),
                                   G_prev, P_prev, W, stage_i, i, dist, block_end, block_end, k),
                G_prev, P_prev, W, stage_i, dist, i + 2 * dist, k)

approx_sk_stage(buf, W, stage_i, k) ==
    LET row == approx_sk_while_i(Row(Zeros(W), Zeros(W)),
                                 At(buf.G, stage_i - 1), At(buf.P, stage_i - 1),
                                 W, stage_i, 2^(stage_i - 1), 0, k)
    IN [buf EXCEPT !.G = Append(buf.G, row.G), !.P = Append(buf.P, row.P),
                   !.log = @ \cup row.log]

\* --------------------------------------------------- Ladner-Fischer engines
\* exact: "while i < W" (exactAdders.py 226-233), in place on G_curr, P_curr
RECURSIVE lf_while_i(_, _, _, _, _, _)
lf_while_i(row, W, stage, dist, step, i) ==
    IF ~(i < W) \/ row.err /= "none" THEN row
    ELSE IF "prefix_operator" \notin exactAdders_globals THEN Raise(row, "NameError")
    ELSE LET o == prefix_operator(At(row.G, i - step), At(row.P, i - step),
                                  At(row.G, i), At(row.P, i))
         IN lf_while_i([row EXCEPT !.G = Upd(row.G, i, o.g), !.P = Upd(row.P, i, o.p),
                                   !.log = @ \cup {Merge(stage, i, i - step, "prefix_operator")}],
                       W, stage, dist, step, i + 2 * dist)

\* exact: "while step < 2*dist and step < W" (exactAdders.py 223-234)
RECURSIVE lf_while_step(_, _, _, _, _)
lf_while_step(row, W, stage, dist, step) ==
    IF ~(step < 2 * dist /\ step < W) \/ row.err /= "none" THEN row
    ELSE lf_while_step(lf_while_i(row, W, stage, dist, step, step), W, stage, dist, 2 * step)

lf_stage(buf, W, stage) ==
    LET dist == 2^(stage - 1)
        row == lf_while_step(Row(At(buf.G, stage - 1), At(buf.P, stage - 1)), W, stage, dist, dist)
    IN IF row.err /= "none" THEN Raise(buf, row.err)
       ELSE [buf EXCEPT !.G = Append(buf.G, row.G), !.P = Append(buf.P, row.P),
                        !.log = @ \cup row.log]

\* the operator of the merge that writes position i (approxAdders.py 233-242)
approx_lf_merge(G_curr, P_curr, step, i, k) ==
    IF i < k
    THEN Applied("approx_prefix_operator",
                 approx_prefix_operator(At(G_curr, i - step), At(P_curr, i - step),
                                        At(G_curr, i), At(P_curr, i)))
    ELSE Applied("prefix_operator",
                 prefix_operator(At(G_curr, i - step), At(P_curr, i - step),
                                 At(G_curr, i), At(P_curr, i)))

\* approximate: "while i < W" (approxAdders.py 232-245)
RECURSIVE approx_lf_while_i(_, _, _, _, _, _, _)
approx_lf_while_i(row, W, stage_i, dist, step, i, k) ==
    IF ~(i < W) THEN row
    ELSE LET o == approx_lf_merge(row.G, row.P, step, i, k)
         IN approx_lf_while_i([row EXCEPT !.G = Upd(row.G, i, o.g), !.P = Upd(row.P, i, o.p),
                                          !.log = @ \cup {Merge(stage_i, i, i - step, o.op)}],
                              W, stage_i, dist, step, i + 2 * dist, k)

\* approximate: "while step < 2*dist and step < W" (approxAdders.py 229-246)
RECURSIVE approx_lf_while_step(_, _, _, _, _, _)
approx_lf_while_step(row, W, stage_i, dist, step, k) ==
    IF ~(step < 2 * dist /\ step < W) THEN row
    ELSE approx_lf_while_step(approx_lf_while_i(row, W, stage_i, dist, step, step, k),
                              W, stage_i, dist, 2 * step, k)

approx_lf_stage(buf, W, stage_i, k) ==
    LET dist == 2^(stage_i - 1)
        row == approx_lf_while_step(Row(At(buf.G, stage_i - 1), At(buf.P, stage_i - 1)),
                                    W, stage_i, dist, dist, k)
    IN [buf EXCEPT !.G = Append(buf.G, row.G), !.P = Append(buf.P, row.P),
                   !.log = @ \cup row.log]

\* ------------------------------------------------ preprocessing, extraction
\* g = [a_bits[i] & b_bits[i] for i in range(W)], p likewise with ^, W = len(a_bits):
\* b_bits[i] raises IndexError when b_bits is the shorter list, and a longer
\* b_bits is read only up to W.
generate(a, b) == [n \in 1..Len(a) |-> BitAnd(a[n], b[n])]
propagate(a, b) == [n \in 1..Len(a) |-> BitXor(a[n], b[n])]

\* Python's list[i]: a negative i counts from the end; IndexError outside.
py_index(list, i) == IF i < 0 THEN i + Len(list) ELSE i
py_in_range(list, i) == 0 <= py_index(list, i) /\ py_index(list, i) < Len(list)

\* the stage whose generate values become the carries
bk_final_index(lw) == lw - 1            \* g_fwd[log_w-1]
approx_bk_final_index(lw) == lw - 1     \* G[log_w-1]
ks_final_index(lw) == lw                \* G[log_w], G_stages[log_w]
sk_final_index(lw) == -1                \* G_stages[-1]
lf_final_index(lw) == -1                \* G_stages[-1]

final_index(e, lw) ==
    CASE e = "bk_adder" -> bk_final_index(lw)
      [] e = "approx_bk_adder" -> approx_bk_final_index(lw)
      [] e \in {"ks_adder", "approx_ks_adder"} -> ks_final_index(lw)
      [] e \in {"sk_adder", "approx_sk_adder"} -> sk_final_index(lw)
      [] e \in {"lf_adder", "approx_lf_adder"} -> lf_final_index(lw)

\* c = [0]*(W+1); c[i+1] = G_final[i]
carry_vector(G_final, width) == [n \in 1..(width + 1) |-> IF n = 1 THEN 0 ELSE G_final[n - 1]]
\* sum_bits = [p[i] ^ c[i] for i in range(W)]
sum_of(p0, cv, width) == [n \in 1..width |-> BitXor(p0[n], cv[n])]

\* ------------------------------------------------------------------- state
VARIABLES
    pc,         \* "idle": no call made on the lists yet; "stages": inside an
                \* engine, before an iteration of its stage loop; "done": returned or raised
    a_bits,     \* the caller's lists, passed to every engine called on them
    b_bits,
    engine,     \* the function that is running or ran last
    K,          \* its third argument (0 for the exact engines, which have none)
    W, g, p, log_w,
    G, P,       \* the stage buffers (g_fwd/p_fwd, G/P, G_stages/P_stages)
    stage,      \* the number of the next iteration (lvl, stage, stage_i)
    dist,
    c, sum_bits,
    outcome,    \* "none", "returned", or the exception raised
    merges,     \* the merges of this call: stage, target, partner, operator
    probe,      \* <<>>, or one remembered earlier call on the same lists
    helper      \* <<>>, or the frame of a call of a function of utils.py or
                \* base_adder.py: its name, its arguments, what it returned

vars == <<pc, a_bits, b_bits, engine, K, W, g, p, log_w, G, P, stage, dist,
          c, sum_bits, outcome, merges, probe, helper>>
locals == <<engine, K, W, g, p, log_w, G, P, stage, dist, c, sum_bits, outcome, merges>>

\* initial_buffers with stage 0 not rebuilt from g and p when an earlier call
\* left a buffer of the same width: the loop starts from that call's last row
initial_buffers_reused(e, g0, p0, width, lw) ==
    LET fresh == CASE e = "bk_adder" ->
                        bk_stage0([G |-> bk_alloc(width, lw), P |-> bk_alloc(width, lw),
                                   err |-> "none", log |-> {}], g0, p0)
                   [] e = "approx_bk_adder" ->
                        approx_bk_stage0([G |-> approx_bk_alloc(width, lw),
                                          P |-> approx_bk_alloc(width, lw),
                                          err |-> "none", log |-> {}], g0, p0)
                   [] OTHER -> [G |-> <<g0>>, P |-> <<p0>>, err |-> "none", log |-> {}]
    IN IF G /= <<>> /\ fresh.err = "none" /\ Len(G[Len(G)]) = width
       THEN [fresh EXCEPT !.G = Upd(fresh.G, 0, G[Len(G)]), !.P = Upd(fresh.P, 0, P[Len(P)])]
       ELSE fresh

\* the stage buffers an engine starts its loop with
initial_buffers(e, g0, p0, width, lw) ==
    CASE e = "bk_adder" ->
           bk_stage0([G |-> bk_alloc(width, lw), P |-> bk_alloc(width, lw),
                      err |-> "none", log |-> {}], g0, p0)
      [] e = "approx_bk_adder" ->
           approx_bk_stage0([G |-> approx_bk_alloc(width, lw), P |-> approx_bk_alloc(width, lw),
                             err |-> "none", log |-> {}], g0, p0)
      [] OTHER -> [G |-> <<g0>>, P |-> <<p0>>, err |-> "none", log |-> {}]

\* An engine as a function of its arguments: the stage loop run to its end,
\* then the extraction.  The result is the outcome and the sum bits.
stage_of(e, buf, width, st, d, k) ==
    CASE e = "bk_adder" -> bk_stage(buf, width, st, d)
      [] e = "approx_bk_adder" -> approx_bk_stage(buf, width, st, d, k)
      [] e = "ks_adder" -> ks_stage(buf, width, st)
      [] e = "approx_ks_adder" -> approx_ks_stage(buf, width, st, k)
      [] e = "sk_adder" -> sk_stage(buf, width, st)
      [] e = "approx_sk_adder" -> approx_sk_stage(buf, width, st, k)
      [] e = "lf_adder" -> lf_stage(buf, width, st)
      [] e = "approx_lf_adder" -> approx_lf_stage(buf, width, st, k)

loop_over(e, width, lw, st, d) ==
    IF e \in {"bk_adder", "approx_bk_adder"} THEN ~(d < width) ELSE ~(st <= lw)

RECURSIVE stage_loop(_, _, _, _, _, _, _)
stage_loop(e, buf, width, lw, st, d, k) ==
    IF buf.err /= "none" \/ loop_over(e, width, lw, st, d) THEN buf
    ELSE stage_loop(e, stage_of(e, buf, width, st, d, k), width, lw, st + 1, 2 * d, k)

engine_result(e, a, b, k) ==
    IF Len(b) < Len(a) THEN [outcome |-> "IndexError", sum_bits |-> <<>>]
    ELSE IF Len(a) = 0 THEN [outcome |-> "ValueError", sum_bits |-> <<>>]
    ELSE LET width == Len(a)
             lw == ceil_log2(width)
             g0 == generate(a, b)
             p0 == propagate(a, b)
             fin == stage_loop(e, initial_buffers(e, g0, p0, width, lw), width, lw, 1, 1, k)
         IN IF fin.err /= "none" THEN [outcome |-> fin.err, sum_bits |-> <<>>]
            ELSE IF ~py_in_range(fin.G, final_index(e, lw))
            THEN [outcome |-> "IndexError", sum_bits |-> <<>>]
            ELSE [outcome |-> "returned", merges |-> fin.log,
                  sum_bits |-> sum_of(p0, carry_vector(At(fin.G, py_index(fin.G, final_index(e, lw))),
                                                       width), width)]

\* ----------------------------------------------------------- initial state
NoLocals ==
    /\ engine = "none" /\ K = 0 /\ W = 0 /\ g = <<>> /\ p = <<>> /\ log_w = 0
    /\ G = <<>> /\ P = <<>> /\ stage = 0 /\ dist = 0 /\ c = <<>> /\ sum_bits = <<>>
    /\ outcome = "none" /\ merges = {}

\* The lists the caller passes: any two lists of bits - of one length up to
\* MaxW, or of any two lengths up to MaxBadLen.
Inputs ==
    UNION {BitVectors(n) \X BitVectors(n) : n \in 1..MaxW}
    \cup UNION {BitVectors(m) \X BitVectors(n) : m, n \in 0..MaxBadLen}

Init ==
    /\ pc = "idle" /\ probe = <<>> /\ helper = <<>> /\ NoLocals
    /\ \E ab \in Inputs : a_bits = ab[1] /\ b_bits = ab[2]

\* main.py 33-38: a, b in [0, 2^W), turned into bits by int_to_bin_list; the
\* four engines are then called on these two lists.
InitSweep ==
    /\ pc = "idle" /\ probe = <<>> /\ helper = <<>> /\ NoLocals
    /\ \E width \in 1..SeqMaxW : \E a, b \in 0..(2^width - 1) :
          a_bits = int_to_bin_list(a, width) /\ b_bits = int_to_bin_list(b, width)

\* ----------------------------------------------------------------- callers
\* The prologue of an engine: W, g, p, log_w and the stage buffers.
Enter(e, k) ==
    /\ engine' = e /\ K' = k /\ W' = Len(a_bits)
    /\ merges' = {} /\ c' = <<>> /\ sum_bits' = <<>> /\ stage' = 1 /\ dist' = 1
    /\ IF Len(b_bits) < Len(a_bits)
       THEN /\ outcome' = "IndexError" /\ pc' = "done"
            /\ g' = <<>> /\ p' = <<>> /\ log_w' = 0 /\ G' = <<>> /\ P' = <<>>
       ELSE /\ g' = generate(a_bits, b_bits) /\ p' = propagate(a_bits, b_bits)
            /\ IF Len(a_bits) = 0
               THEN /\ outcome' = "ValueError" /\ pc' = "done"
                    /\ log_w' = 0 /\ G' = <<>> /\ P' = <<>>
               ELSE LET lw == ceil_log2(Len(a_bits))
                        b0 == initial_buffers(e, g', p', Len(a_bits), lw)
                    IN /\ log_w' = lw /\ G' = b0.G /\ P' = b0.P
                       /\ outcome' = b0.err
                       /\ pc' = IF b0.err = "none" THEN "stages" ELSE "done"
    /\ UNCHANGED <<a_bits, b_bits, helper>>

\* one call on the caller's lists
CallExact(e) == pc = "idle" /\ e \in ExactEngines /\ Enter(e, 0) /\ UNCHANGED probe
CallApprox(e, k) == pc = "idle" /\ e \in ApproxEngines /\ Enter(e, k) /\ UNCHANGED probe

\* A sweep (main.py 28-70) calls engine after engine on the same two lists.
\* The probe notes whether a call with other arguments was made after it.
Noted(e, k) ==
    IF probe /= <<>> /\ (probe[1].engine /= e \/ probe[1].K /= k)
    THEN <<[probe[1] EXCEPT !.between = TRUE]>>
    ELSE probe

SweepCallExact(e) ==
    pc \in {"idle", "done"} /\ e \in ExactEngines /\ Enter(e, 0) /\ probe' = Noted(e, 0)
SweepCallApprox(e, k) ==
    pc \in {"idle", "done"} /\ e \in ApproxEngines /\ Enter(e, k) /\ probe' = Noted(e, k)

\* Remember the call that has just ended, to compare later calls with it.
Record ==
    /\ pc = "done" /\ probe = <<>>
    /\ probe' = <<[engine |-> engine, K |-> K, outcome |-> outcome,
                   sum_bits |-> sum_bits, merges |-> merges, between |-> FALSE]>>
    /\ UNCHANGED <<pc, a_bits, b_bits, engine, K, W, g, p, log_w, G, P, stage, dist,
                   c, sum_bits, outcome, merges, helper>>

\* ------------------------------------------------------------- stage loops
Buf == [G |-> G, P |-> P, err |-> "none", log |-> merges]

Iterate(nb, d) ==
    /\ G' = nb.G /\ P' = nb.P /\ merges' = nb.log /\ dist' = d
    /\ IF nb.err = "none"
       THEN pc' = "stages" /\ stage' = stage + 1 /\ outcome' = "none"
       ELSE pc' = "done" /\ stage' = stage /\ outcome' = nb.err
    /\ UNCHANGED <<a_bits, b_bits, engine, K, W, g, p, log_w, c, sum_bits, probe, helper>>

BKStage ==
    /\ pc = "stages" /\ engine = "bk_adder" /\ dist < W
    /\ Iterate(bk_stage(Buf, W, stage, dist), 2 * dist)

ApproxBKStage ==
    /\ pc = "stages" /\ engine = "approx_bk_adder" /\ dist < W
    /\ Iterate(approx_bk_stage(Buf, W, stage, dist, K), 2 * dist)

KSStage ==
    /\ pc = "stages" /\ engine = "ks_adder" /\ stage <= log_w
    /\ Iterate(ks_stage(Buf, W, stage), 2^(stage - 1))

ApproxKSStage ==
    /\ pc = "stages" /\ engine = "approx_ks_adder" /\ stage <= log_w
    /\ Iterate(approx_ks_stage(Buf, W, stage, K), 2^(stage - 1))

SKStage ==
    /\ pc = "stages" /\ engine = "sk_adder" /\ stage <= log_w
    /\ Iterate(sk_stage(Buf, W, stage), 2^(stage - 1))

ApproxSKStage ==
    /\ pc = "stages" /\ engine = "approx_sk_adder" /\ stage <= log_w
    /\ Iterate(approx_sk_stage(Buf, W, stage, K), 2^(stage - 1))

LFStage ==
    /\ pc = "stages" /\ engine = "lf_adder" /\ stage <= log_w
    /\ Iterate(lf_stage(Buf, W, stage), 2^(stage - 1))

ApproxLFStage ==
    /\ pc = "stages" /\ engine = "approx_lf_adder" /\ stage <= log_w
    /\ Iterate(approx_lf_stage(Buf, W, stage, K), 2^(stage - 1))

LoopOver == loop_over(engine, W, log_w, stage, dist)

\* After the loop: the carries from the final stage, the sum bits, return.
Extract ==
    /\ pc = "stages" /\ LoopOver
    /\ pc' = "done"
    /\ IF py_in_range(G, final_index(engine, log_w))
       THEN LET cv == carry_vector(At(G, py_index(G, final_index(engine, log_w))), W)
            IN c' = cv /\ sum_bits' = sum_of(p, cv, W) /\ outcome' = "returned"
       ELSE c' = [n \in 1..(W + 1) |-> 0] /\ sum_bits' = <<>> /\ outcome' = "IndexError"
    /\ UNCHANGED <<a_bits, b_bits, engine, K, W, g, p, log_w, G, P, stage, dist, merges,
                   probe, helper>>

\* ---------------------------------------------------------- specifications
Next ==
    \/ \E e \in ExactEngines : CallExact(e)
    \/ \E e \in ApproxEngines : \E k \in (-1)..(Len(a_bits) + 1) : CallApprox(e, k)
    \/ BKStage \/ ApproxBKStage \/ KSStage \/ ApproxKSStage
    \/ SKStage \/ ApproxSKStage \/ LFStage \/ ApproxLFStage
    \/ Extract

Spec == Init /\ [][Next]_vars

NextSweep ==
    \/ \E e \in ExactEngines : SweepCallExact(e)
    \/ \E e \in ApproxEngines : \E k \in 0..Len(a_bits) : SweepCallApprox(e, k)
    \/ BKStage \/ ApproxBKStage \/ KSStage \/ ApproxKSStage
    \/ SKStage \/ ApproxSKStage \/ LFStage \/ ApproxLFStage
    \/ Extract
    \/ Record

SpecSweep == InitSweep /\ [][NextSweep]_vars

\* ------------------------------------------- the prefix operator on its own
\* A (G, P) pair, as a stage buffer holds one per position.
Pairs == [g : {0, 1}, p : {0, 1}]

\* prefix_operator called as the engines call it: the pair of the lower
\* position (left) first, then the pair of the position written (right).
merge_pairs(left, right) == prefix_operator(left.g, left.p, right.g, right.p)

\* The frame of a run of calls of prefix_operator on three pairs x, y, z,
\* x the lowest position: the calls made so far and what each returned.
OperatorFrame(x, y, z) == [fn |-> "prefix_operator", args |-> <<x, y, z>>, ret |-> {}]
Called(name) == \E r \in helper[1].ret : r.call = name
Out(name) == (CHOOSE r \in helper[1].ret : r.call = name).out
Returned(name, o) == <<[helper[1] EXCEPT !.ret = @ \cup {[call |-> name, out |-> o]}]>>

InitOperator ==
    /\ pc = "idle" /\ probe = <<>> /\ NoLocals /\ a_bits = <<>> /\ b_bits = <<>>
    /\ \E x, y, z \in Pairs : helper = <<OperatorFrame(x, y, z)>>

\* x merged with y, y with z, and y with x (the operands swapped)
MergeXY ==
    /\ ~Called("xy")
    /\ helper' = Returned("xy", merge_pairs(helper[1].args[1], helper[1].args[2]))
    /\ UNCHANGED <<pc, probe, a_bits, b_bits, locals>>

MergeYZ ==
    /\ ~Called("yz")
    /\ helper' = Returned("yz", merge_pairs(helper[1].args[2], helper[1].args[3]))
    /\ UNCHANGED <<pc, probe, a_bits, b_bits, locals>>

MergeYX ==
    /\ ~Called("yx")
    /\ helper' = Returned("yx", merge_pairs(helper[1].args[2], helper[1].args[1]))
    /\ UNCHANGED <<pc, probe, a_bits, b_bits, locals>>

\* the result of a merge merged again: (x y) with z, and x with (y z)
MergeXY_Z ==
    /\ Called("xy") /\ ~Called("xy_z")
    /\ helper' = Returned("xy_z", merge_pairs(Out("xy"), helper[1].args[3]))
    /\ UNCHANGED <<pc, probe, a_bits, b_bits, locals>>

MergeX_YZ ==
    /\ Called("yz") /\ ~Called("x_yz")
    /\ helper' = Returned("x_yz", merge_pairs(helper[1].args[1], Out("yz")))
    /\ UNCHANGED <<pc, probe, a_bits, b_bits, locals>>

NextOperator == MergeXY \/ MergeYZ \/ MergeYX \/ MergeXY_Z \/ MergeX_YZ

SpecOperator == InitOperator /\ [][NextOperator]_vars

\* ------------------------------------------------- the bit codecs on their own
\* base_adder.py 9-15: to_bits and from_bits
to_bits(value, width) == [n \in 1..width |-> (value \div 2^(n - 1)) % 2]

RECURSIVE from_bits(_)
from_bits(bits) ==
    IF Len(bits) = 0 THEN 0
    ELSE from_bits(SubSeq(bits, 1, Len(bits) - 1)) + bits[Len(bits)] * 2^(Len(bits) - 1)

\* the two codecs: the function to bits and the function back, by module
Codecs == {"utils", "base_adder"}
encode(codec, value, width) ==
    IF codec = "utils" THEN int_to_bin_list(value, width) ELSE to_bits(value, width)
decode(codec, bits) ==
    IF codec = "utils" THEN bin_list_to_int(bits) ELSE from_bits(bits)

\* A value passed to or returned by a codec function: an integer or a list.
IntArg(v) == [kind |-> "int", v |-> v]
BitsArg(bits) == [kind |-> "bits", v |-> bits]

\* The frame of a run of codec calls: the first argument, the width, and
\* what the calls made so far returned, each call fed the last result.
CodecFrame(codec, first, width) ==
    [fn |-> codec, args |-> first, width |-> width, ret |-> <<>>]
Current == IF helper[1].ret = <<>> THEN helper[1].args ELSE helper[1].ret[Len(helper[1].ret)]

InitCodec ==
    /\ pc = "idle" /\ probe = <<>> /\ NoLocals /\ a_bits = <<>> /\ b_bits = <<>>
    /\ \E codec \in Codecs : \E width \in 1..CodecMaxW :
          \/ \E v \in 0..(2^width - 1) : helper = <<CodecFrame(codec, IntArg(v), width)>>
          \/ \E bits \in BitVectors(width) : helper = <<CodecFrame(codec, BitsArg(bits), width)>>

\* int_to_bin_list(x, W) / to_bits(value, width) on the current integer
Encode ==
    /\ Len(helper[1].ret) < 2 /\ Current.kind = "int"
    /\ helper' = <<[helper[1] EXCEPT
                      !.ret = Append(@, BitsArg(encode(helper[1].fn, Current.v, helper[1].width)))]>>
    /\ UNCHANGED <<pc, probe, a_bits, b_bits, locals>>

\* bin_list_to_int(bits) / from_bits(bits) on the current list
Decode ==
    /\ Len(helper[1].ret) < 2 /\ Current.kind = "bits"
    /\ helper' = <<[helper[1] EXCEPT !.ret = Append(@, IntArg(decode(helper[1].fn, Current.v)))]>>
    /\ UNCHANGED <<pc, probe, a_bits, b_bits, locals>>

NextCodec == Encode \/ Decode

SpecCodec == InitCodec /\ [][NextCodec]_vars

\* ------------------------------------------------------- the class AxppaBk
\* adders/axpo.py is imported by axppabk.py and is not in the repository:
\* its two functions return their argument, as the comments of
\* _approx_prefix_logic say ("G ~ g[i], P ~ p[i]").
axpo_generate(gi) == gi
axpo_propagate(pi) == pi

\* base_adder.py 3-7: zip(a, b), to the shorter of the two lists
bitwise_generate_propagate(a, b) ==
    [g |-> [n \in 1..Min(Len(a), Len(b)) |-> BitAnd(a[n], b[n])],
     p |-> [n \in 1..Min(Len(a), Len(b)) |-> BitXor(a[n], b[n])]]

\* _approx_prefix_logic (13-21): carry = [0], then one append per i in range(k)
RECURSIVE _approx_prefix_logic(_, _, _)
_approx_prefix_logic(g_lsb, p_lsb, k) ==
    IF k <= 0 THEN <<0>>
    ELSE LET carry == _approx_prefix_logic(g_lsb, p_lsb, k - 1)
         IN Append(carry, BitOr(axpo_generate(At(g_lsb, k - 1)),
                                BitAnd(axpo_propagate(At(p_lsb, k - 1)), carry[Len(carry)])))

\* n.bit_length() for n >= 0
bit_length(n) == CHOOSE b \in 0..(n + 1) : 2^b > n /\ (b = 0 \/ 2^(b - 1) <= n)

\* g[i] = g[i] | (p[i] & g[i - h]); p[i] = p[i] & p[i - h]   (34-35, 40-41)
bk_update(t, i, h) ==
    [g |-> Upd(t.g, i, BitOr(At(t.g, i), BitAnd(At(t.p, i), At(t.g, i - h)))),
     p |-> Upd(t.p, i, BitAnd(At(t.p, i), At(t.p, i - h)))]

\* for i in range(first, n, 1 << d), from i on, in place
RECURSIVE bk_for_range(_, _, _, _)
bk_for_range(t, n, d, i) ==
    IF i >= n THEN t ELSE bk_for_range(bk_update(t, i, 2^(d - 1)), n, d, i + 2^d)

\* "Upward (reduce) pass" (31-35): for d in range(1, logn), from d on
RECURSIVE bk_upward(_, _, _, _)
bk_upward(t, n, logn, d) ==
    IF d >= logn THEN t
    ELSE bk_upward(bk_for_range(t, n, d, 2^d - 1), n, logn, d + 1)

\* "Downward (propagate) pass" (37-41): for d in reversed(range(1, logn)), from d down
RECURSIVE bk_downward(_, _, _)
bk_downward(t, n, d) ==
    IF d < 1 THEN t
    ELSE bk_downward(bk_for_range(t, n, d, 2^d + 2^(d - 1) - 1), n, d - 1)

\* _exact_prefix_bk (23-47): the tree on copies of g and p, then c[i+1] = g[i]
_exact_prefix_bk(g_msb, p_msb) ==
    LET n == Len(g_msb)
        logn == bit_length(n)
        t == bk_downward(bk_upward([g |-> g_msb, p |-> p_msb], n, logn, 1), n, logn - 1)
    IN [g |-> t.g, p |-> t.p, c |-> carry_vector(t.g, n)]

\* exact_carry[0] = approx_carry[-1]   (add, 65)
seeded(exact_carry, approx_carry) == Upd(exact_carry, 0, approx_carry[Len(approx_carry)])

\* No object yet.  AxppaBk(width, approx_bits) will set W and K.
InitAxppaBk ==
    /\ pc = "idle" /\ probe = <<>> /\ helper = <<>> /\ NoLocals
    /\ a_bits = <<>> /\ b_bits = <<>>

\* AxppaBk.__init__ (8-11): self.width, the assert, self.k
AxppaBk__init__(width, approx_bits) ==
    /\ pc = "idle"
    /\ engine' = "AxppaBk" /\ W' = width
    /\ IF 0 <= approx_bits /\ approx_bits <= width
       THEN K' = approx_bits /\ pc' = "constructed" /\ outcome' = "none"
       ELSE K' = 0 /\ pc' = "done" /\ outcome' = "AssertionError"
    /\ UNCHANGED <<a_bits, b_bits, g, p, log_w, G, P, stage, dist, c, sum_bits, merges,
                   probe, helper>>

\* add (49-57): to_bits of the two integers, g and p, then the LSB chain
\* and the sum bits below k
add(a, b) ==
    /\ pc = "constructed"
    /\ engine' = "AxppaBk.add"
    /\ a_bits' = to_bits(a, W) /\ b_bits' = to_bits(b, W)
    /\ LET gp == bitwise_generate_propagate(a_bits', b_bits')
           approx_carry == _approx_prefix_logic(SubSeq(gp.g, 1, K), SubSeq(gp.p, 1, K), K)
       IN /\ g' = gp.g /\ p' = gp.p
          /\ c' = approx_carry
          /\ sum_bits' = [n \in 1..K |-> BitXor(gp.p[n], approx_carry[n])]
    /\ pc' = "msb"
    /\ UNCHANGED <<K, W, log_w, G, P, stage, dist, outcome, merges, probe, helper>>

\* add (59-69): the tree on the bits from k up, its first carry replaced by
\* the chain's last, the sum bits from k up, full_sum.  c becomes the carry
\* into every position: the chain's carries, then the tree's.
add_msb ==
    /\ pc = "msb"
    /\ LET g_msb == SubSeq(g, K + 1, Len(g))
           p_msb == SubSeq(p, K + 1, Len(p))
           tree == _exact_prefix_bk(g_msb, p_msb)
           exact_carry == seeded(tree.c, c)
           exact_sum == [n \in 1..Len(p_msb) |-> BitXor(p_msb[n], exact_carry[n])]
       IN /\ G' = <<tree.g>> /\ P' = <<tree.p>>
          /\ log_w' = bit_length(Len(g_msb))
          /\ c' = SubSeq(c, 1, Len(c) - 1) \o exact_carry
          /\ sum_bits' = sum_bits \o exact_sum
    /\ pc' = "done" /\ outcome' = "returned"
    /\ UNCHANGED <<a_bits, b_bits, engine, K, W, g, p, stage, dist, merges, probe, helper>>

NextAxppaBk ==
    \/ \E width \in 1..AxppaMaxW : \E approx_bits \in (-1)..(width + 1) :
          AxppaBk__init__(width, approx_bits)
    \/ \E a, b \in 0..(2^W - 1) : add(a, b)
    \/ add_msb

SpecAxppaBk == InitAxppaBk /\ [][NextAxppaBk]_vars

\* ------------------------------------------------------------------ claims
\* What the claims speak of: a call with two vectors of one length W >= 1,
\* the integers the vectors stand for, and the carries of their exact sum.
ValidCall == Len(a_bits) = Len(b_bits) /\ Len(a_bits) >= 1
ValidK == K \in 0..Len(a_bits)
ValueA == bin_list_to_int(a_bits)
ValueB == bin_list_to_int(b_bits)
ExactSum == (ValueA + ValueB) % 2^Len(a_bits)
ReturnsExactSum == outcome = "returned" /\ bin_list_to_int(sum_bits) = ExactSum
\* the carry into position i of the exact addition of the two operands
CarryInto(i) == ((ValueA % 2^i) + (ValueB % 2^i)) \div 2^i
\* the (stage, target) pairs of the merges done with the approximate operator
ApproxMerges(ms) == {<<m.stage, m.target>> : m \in {x \in ms : x.op = "approx_prefix_operator"}}

\* C1: approx_bk_adder called with K = 0 on two W-bit vectors returns the
\* bits of (a + b) mod 2^W.
C1_BrentKungExactAtKZero ==
    (pc = "done" /\ engine = "approx_bk_adder" /\ K = 0 /\ ValidCall) => ReturnsExactSum

\* C2: lf_adder, and approx_lf_adder called with K = 0, return the bits of
\* (a + b) mod 2^W.
C2_LadnerFischerExact ==
    (pc = "done" /\ ValidCall /\ (engine = "lf_adder" \/ (engine = "approx_lf_adder" /\ K = 0)))
    => ReturnsExactSum

\* C3: ks_adder, and approx_ks_adder called with K = 0, return the bits of
\* (a + b) mod 2^W, for every W >= 1.
C3_KoggeStoneExact ==
    (pc = "done" /\ ValidCall /\ (engine = "ks_adder" \/ (engine = "approx_ks_adder" /\ K = 0)))
    => ReturnsExactSum

\* C4: sk_adder, and approx_sk_adder called with K = 0, return the bits of
\* (a + b) mod 2^W, for every W >= 1.
C4_SklanskyExact ==
    (pc = "done" /\ ValidCall /\ (engine = "sk_adder" \/ (engine = "approx_sk_adder" /\ K = 0)))
    => ReturnsExactSum

\* C5 as claimed: in every approximate engine, for K in [0, W], if the exact
\* carry into bit K is 0 the approximate sum is the exact sum.
C5_BoundaryContainment ==
    (pc = "done" /\ engine \in ApproxEngines /\ ValidCall /\ ValidK /\ CarryInto(K) = 0)
    => ReturnsExactSum

\* C5 as amended: in every approximate engine, for K in [0, W], if the exact
\* carry into every position below K is 0, the sum returned is the sum the
\* same engine returns with K = 0; for Kogge-Stone and Sklansky that is the
\* exact sum (a + b) mod 2^W.
C5_NoCarryIntoRegion ==
    (pc = "done" /\ engine \in ApproxEngines /\ ValidCall /\ ValidK
       /\ \A i \in 0..(K - 1) : CarryInto(i) = 0)
    => /\ outcome = "returned"
       /\ sum_bits = engine_result(engine, a_bits, b_bits, 0).sum_bits
       /\ engine \in {"approx_ks_adder", "approx_sk_adder"} => ReturnsExactSum

\* C5, the case: a Sklansky call with 1 < K < W whose operands send no carry
\* into a position below K but one from position K - 1 into position K.
C5_Witness ==
    /\ pc = "done" /\ engine = "approx_sk_adder" /\ ValidCall /\ outcome = "returned"
    /\ K > 1 /\ K < Len(a_bits) - 1
    /\ \A i \in 0..(K - 1) : CarryInto(i) = 0
    /\ CarryInto(K) = 1 /\ CarryInto(K + 1) = 1

\* C6: every engine, called with two vectors of one length W >= 1 and K in
\* [0, W], returns W sum bits, each 0 or 1, and raises nothing.
C6_Totality ==
    (pc = "done" /\ ValidCall /\ ValidK)
    => /\ outcome = "returned"
       /\ Len(sum_bits) = Len(a_bits)
       /\ \A n \in 1..Len(sum_bits) : sum_bits[n] \in {0, 1}

C8_InvalidApproxBoundary ==
    (pc = "done" /\ engine \in ApproxEngines /\ ValidCall /\ ~ValidK)
    => (outcome /= "returned" /\ sum_bits = <<>>)

\* C9: an engine called with vectors of different lengths, or of length 0,
\* raises an error and returns no sum bits.
C9_InvalidWidth ==
    (pc = "done" /\ ~ValidCall) => (outcome /= "returned" /\ sum_bits = <<>>)

\* C10: in an approximate engine a merge that writes position i is done with
\* the approximate operator exactly if i < K, whatever its partner; and the
\* (stage, target) merges done with the approximate operator for K - 1 are
\* among those done for K - so, K by K, those for any K1 <= K2 among those for K2.
C10_OperatorByTarget ==
    engine \in ApproxEngines
    => /\ \A m \in merges : (m.op = "approx_prefix_operator") <=> (m.target < K)
       /\ (pc = "done" /\ outcome = "returned")
          => ApproxMerges(engine_result(engine, a_bits, b_bits, K - 1).merges)
                \subseteq ApproxMerges(merges)

\* C10, the case: a Sklansky call of a width that is no power of two has done
\* an exact merge whose partner lies below K and an approximate merge.
C10_Witness ==
    /\ pc = "done" /\ engine = "approx_sk_adder" /\ outcome = "returned" /\ Len(a_bits) = 5
    /\ \E m \in merges : m.partner < K /\ m.target >= K /\ m.op = "prefix_operator"
    /\ \E m \in merges : m.op = "approx_prefix_operator"


\* C11: prefix_operator is associative - merging (x with y) with z returns
\* what merging x with (y with z) returns, for all pairs x, y, z - and is not
\* commutative: for some pairs x, y, merging x with y differs from merging y
\* with x.
C11_AssociativeNotCommutative ==
    /\ (Called("xy_z") /\ Called("x_yz")) => Out("xy_z") = Out("x_yz")
    /\ \E x, y \in Pairs : merge_pairs(x, y) /= merge_pairs(y, x)

\* both groupings were computed on three pairs, and swapping x and y changed
\* the result of their merge
C11_Witness ==
    /\ Called("xy_z") /\ Called("x_yz") /\ Called("xy") /\ Called("yx")
    /\ Out("xy") /= Out("yx")
    /\ helper[1].args[1] /= helper[1].args[2]

\* C12: for W >= 1 and v in [0, 2^W), int_to_bin_list(v, W) and to_bits(v, W)
\* return W values, each 0 or 1, position i holding bit i of v (position 0 the
\* least significant), and bin_list_to_int / from_bits of that list return v;
\* a list of W bits turned into an integer and back with width W is the same
\* list again.
C12_CodecRoundTrip ==
    LET f == helper[1]
        width == f.width
    IN /\ (f.args.kind = "int" /\ Len(f.ret) >= 1)
          => /\ Len(f.ret[1].v) = width
             /\ \A i \in 0..(width - 1) :
                   /\ At(f.ret[1].v, i) \in {0, 1}
                   /\ At(f.ret[1].v, i) = (f.args.v \div 2^i) % 2
       /\ (f.args.kind = "int" /\ Len(f.ret) = 2) => f.ret[2].v = f.args.v
       /\ (f.args.kind = "bits" /\ Len(f.ret) = 2) => f.ret[2].v = f.args.v

\* an integer whose bits are not a palindrome went to bits and back, or such
\* a list went to an integer and back
C12_Witness ==
    /\ Len(helper[1].ret) = 2 /\ helper[1].width >= 3
    /\ LET bits == IF helper[1].args.kind = "int" THEN helper[1].ret[1].v ELSE helper[1].args.v
       IN bits[1] /= bits[Len(bits)]

\* C13: for W >= 2 a Brent-Kung engine (bk_adder, approx_bk_adder) performs
\* exactly 2*ceil(log2 W) - 1 merge stages; the stages of the upward pass
\* (the first ceil(log2 W)) merge at strides 1, 2, 4, ... and only positions
\* i with (i + 1) divisible by twice the stride; the later stages, the
\* downward pass, merge the positions the upward pass left out.
C13_BrentKungSchedule ==
    (pc = "done" /\ engine \in {"bk_adder", "approx_bk_adder"}
       /\ ValidCall /\ ValidK /\ Len(a_bits) >= 2)
    => /\ stage - 1 = 2 * ceil_log2(W) - 1
       /\ \A m \in merges :
             IF m.stage <= ceil_log2(W)
             THEN /\ m.target - m.partner = 2^(m.stage - 1)
                  /\ (m.target + 1) % (2 * 2^(m.stage - 1)) = 0
             ELSE \A u \in merges : u.stage <= ceil_log2(W) => u.target /= m.target

\* C14: when an engine returns, c[0] = 0, c[i+1] is the generate value at
\* position i of the last stage the engine computed, for every i in 0..W-1,
\* and sum[i] = p[i] XOR c[i] with p the stage-0 propagate.
C14_CarriesFromLastStage ==
    (pc = "done" /\ outcome = "returned" /\ ValidCall /\ ValidK)
    => /\ At(c, 0) = 0
       /\ \A i \in 0..(W - 1) :
             /\ At(c, i + 1) = At(At(G, stage - 1), i)
             /\ At(sum_bits, i) = BitXor(At(propagate(a_bits, b_bits), i), At(c, i))

\* C15: in each approximate engine called with K in [0, W], every position
\* i < K ends with carry c[i+1] = g[i], its own stage-0 generate, so that
\* sum[0] = p[0] and sum[i] = p[i] XOR g[i-1] for 1 <= i <= min(K, W-1); for
\* W = 4, a = 15, b = 1, K = 4 the sum returned is 1100, not the exact 0000.
C15_ApproximateRegion ==
    (pc = "done" /\ engine \in ApproxEngines /\ ValidCall /\ ValidK)
    => /\ outcome = "returned"
       /\ \A i \in 0..(K - 1) : At(c, i + 1) = At(generate(a_bits, b_bits), i)
       /\ At(sum_bits, 0) = At(propagate(a_bits, b_bits), 0)
       /\ \A i \in 1..Min(K, W - 1) :
             At(sum_bits, i) = BitXor(At(propagate(a_bits, b_bits), i),
                                      At(generate(a_bits, b_bits), i - 1))
       /\ (a_bits = int_to_bin_list(15, 4) /\ b_bits = int_to_bin_list(1, 4) /\ K = 4)
          => /\ sum_bits = int_to_bin_list(12, 4)
             /\ bin_list_to_int(sum_bits) /= ExactSum

\* an approximate engine returned with K = W = 4 on 15 + 1: two carries of
\* the exact sum, into bits 2 and 3, are dropped in the region
C15_Witness ==
    /\ pc = "done" /\ outcome = "returned" /\ engine \in ApproxEngines
    /\ a_bits = <<1, 1, 1, 1>> /\ b_bits = <<1, 0, 0, 0>> /\ K = 4
    /\ sum_bits = <<0, 0, 1, 1>>
    /\ \E m \in merges : m.op = "approx_prefix_operator" /\ m.stage = 2

\* the operator a logged merge called, applied to the pairs that the merge's
\* partner and target held in the row of the stage before
OnStageBefore(m) ==
    LET G_prev == At(G, m.stage - 1)
        P_prev == At(P, m.stage - 1)
    IN IF m.op = "approx_prefix_operator"
       THEN approx_prefix_operator(At(G_prev, m.partner), At(P_prev, m.partner),
                                   At(G_prev, m.target), At(P_prev, m.target))
       ELSE prefix_operator(At(G_prev, m.partner), At(P_prev, m.partner),
                            At(G_prev, m.target), At(P_prev, m.target))

\* C17: every merge of a stage s >= 1 reads its two operands with the values
\* their positions held at the end of stage s - 1, never a value written
\* during stage s: what the merge wrote is its operator applied to the pairs
\* of stage s - 1, and a position no merge of stage s wrote holds its pair of
\* stage s - 1.  In every engine, for every W >= 1.
C17_StageIsolation ==
    /\ \A m \in merges :
          /\ At(At(G, m.stage), m.target) = OnStageBefore(m).g
          /\ At(At(P, m.stage), m.target) = OnStageBefore(m).p
    /\ \A s \in 1..(stage - 1) : \A i \in 0..(W - 1) :
          (\A m \in merges : ~(m.stage = s /\ m.target = i))
          => /\ At(At(G, s), i) = At(At(G, s - 1), i)
             /\ At(At(P, s), i) = At(At(P, s - 1), i)

\* the Sklansky or the Ladner-Fischer engine, at a width that is no power
\* of two, merged in a stage after the first with the exact operator a
\* position whose partner had been written by a merge of the stage before
C17_Witness ==
    /\ pc = "done" /\ outcome = "returned" /\ Len(a_bits) = 5
    /\ engine \in {"approx_sk_adder", "approx_lf_adder"}
    /\ \E m \in merges :
          /\ m.stage >= 2 /\ m.op = "prefix_operator"
          /\ \E u \in merges : u.stage = m.stage - 1 /\ u.target = m.partner
          /\ At(At(G, m.stage), m.target) /= At(At(G, m.stage - 1), m.target)

\* the exact engine of the topology of an approximate engine
ExactEngineOf(e) ==
    CASE e = "approx_bk_adder" -> "bk_adder"
      [] e = "approx_ks_adder" -> "ks_adder"
      [] e = "approx_sk_adder" -> "sk_adder"
      [] e = "approx_lf_adder" -> "lf_adder"

\* C18: an approximate engine called with K = 0 on two W-bit vectors, W >= 1,
\* ends as the exact engine of its topology ends on the same vectors: the
\* same outcome, the same W sum bits.
C18_KZeroIsExactEngine ==
    (pc = "done" /\ engine \in ApproxEngines /\ K = 0 /\ ValidCall)
    => LET exact == engine_result(ExactEngineOf(engine), a_bits, b_bits, 0)
       IN /\ outcome = exact.outcome
          /\ sum_bits = exact.sum_bits
          /\ Len(sum_bits) = Len(a_bits)

\* C16: with axpo_generate and axpo_propagate the identity, the upper W - K
\* sum bits that AxppaBk.add returns are (a_hi + b_hi + cout) mod 2^(W-K),
\* a_hi and b_hi the operands' bits K..W-1 and cout the last carry of the
\* K-bit LSB chain, for every W, every K in [0, W] and every operand pair.
C16_CarrySeeding ==
    (pc = "done" /\ engine = "AxppaBk.add" /\ outcome = "returned")
    => LET a_hi == from_bits(SubSeq(a_bits, K + 1, W))
           b_hi == from_bits(SubSeq(b_bits, K + 1, W))
           cout == At(c, K)
       IN /\ Len(sum_bits) = W
          /\ from_bits(SubSeq(sum_bits, K + 1, W)) = (a_hi + b_hi + cout) % 2^(W - K)
====
